---- MODULE Spec2Model ----
(***************************************************************************)
(* The display engine of the Sozi player (player/js/display.js): the layer *)
(* registry, the fit-to-viewport geometry, and the operations that change  *)
(* it (setup, resize, update, showFrame, drag, zoom, rotate).              *)
(*                                                                         *)
(* JavaScript numbers are binary64 values.  The model carries them as      *)
(* exact dyadic values  (-1)^s * m * 2^e  with the magnitude m a           *)
(* sequence of 15-bit limbs, and rounds every arithmetic result to 53      *)
(* significant bits, to nearest, ties to even, as the language does.       *)
(* Results of 2^1024 or more are infinities, results below 2^-1022 keep    *)
(* the bits above 2^-1074, and zeros are signed.                           *)
(***************************************************************************)
EXTENDS Integers, Sequences, FiniteSets, TLC

\* ------------------------------------------------------------------------
\* Magnitudes: naturals in base 2^15, least significant limb first, no
\* leading zero limb
\* ------------------------------------------------------------------------

\* The element of a set of one element.  The({e : x \in {v}}) is e where x
\* is the value of v.
The(S) == CHOOSE v \in S : TRUE

Max(S) == CHOOSE x \in S : \A y \in S : y <= x
Min(S) == CHOOSE x \in S : \A y \in S : x <= y

LimbBits == 15
Base == 32768

RECURSIVE NatLimbs(_)
NatLimbs(n) == IF n = 0 THEN <<>> ELSE <<n % Base>> \o NatLimbs(n \div Base)

NTrim(a) ==
    The({SubSeq(x, 1, Max({0} \cup {i \in 1..Len(x) : x[i] # 0})) : x \in {a}})

Limb(a, i) == IF i <= Len(a) THEN a[i] ELSE 0

RECURSIVE NAddFrom(_, _, _, _)
NAddFrom(a, b, i, c) ==
    IF i > Len(a) /\ i > Len(b)
    THEN IF c = 0 THEN <<>> ELSE <<c>>
    ELSE The({<<t % Base>> \o NAddFrom(a, b, j, t \div Base) :
                t \in {Limb(a, i) + Limb(b, i) + c}, j \in {i + 1}})

NAdd(a, b) == The({NAddFrom(x, y, 1, 0) : x \in {a}, y \in {b}})

\* a - b for a >= b
RECURSIVE NSubFrom(_, _, _, _)
NSubFrom(a, b, i, c) ==
    IF i > Len(a)
    THEN <<>>
    ELSE The({<<t % Base>> \o NSubFrom(a, b, j, IF t < 0 THEN 1 ELSE 0) :
                t \in {Limb(a, i) - Limb(b, i) - c}, j \in {i + 1}})

NSub(a, b) == The({NTrim(NSubFrom(x, y, 1, 0)) : x \in {a}, y \in {b}})

\* -1, 0, 1 as a < b, a = b, a > b
NCmpAt(a, b, D) ==
    IF D = {} THEN 0 ELSE IF a[Max(D)] > b[Max(D)] THEN 1 ELSE -1

NCmp(a, b) ==
    The({IF Len(x) # Len(y) THEN (IF Len(x) > Len(y) THEN 1 ELSE -1)
         ELSE The({NCmpAt(x, y, D) : D \in {{i \in 1..Len(x) : x[i] # y[i]}}}) :
           x \in {a}, y \in {b}})

\* a * k for a limb k
RECURSIVE NScaleFrom(_, _, _, _)
NScaleFrom(a, k, i, c) ==
    IF i > Len(a)
    THEN IF c = 0 THEN <<>> ELSE <<c>>
    ELSE The({<<t % Base>> \o NScaleFrom(a, k, j, t \div Base) :
                t \in {a[i] * k + c}, j \in {i + 1}})

NScale(a, k) ==
    The({IF n = 0 THEN <<>> ELSE NScaleFrom(x, n, 1, 0) : x \in {a}, n \in {k}})

\* a * 2^k
NShl(a, k) ==
    The({IF x = <<>> THEN <<>>
         ELSE [i \in 1..(n \div LimbBits) |-> 0] \o NScale(x, 2 ^ (n % LimbBits)) :
           x \in {a}, n \in {k}})

RECURSIVE NMulFrom(_, _, _)
NMulFrom(a, b, i) ==
    IF i > Len(b) THEN <<>>
    ELSE The({NAdd(NScale(a, b[i]), <<0>> \o NMulFrom(a, b, j)) : j \in {i + 1}})

NMul(a, b) == The({NTrim(NMulFrom(x, y, 1)) : x \in {a}, y \in {b}})

\* The largest limb k with d * k <= r, for r < d * Base: bit by bit
RECURSIVE QuotientLimb(_, _, _, _)
QuotientLimb(r, d, bit, k) ==
    IF bit < 0 THEN k
    ELSE The({QuotientLimb(r, d, b, k2) :
                k2 \in {IF NCmp(NScale(d, k + 2 ^ bit), r) <= 0 THEN k + 2 ^ bit ELSE k},
                b \in {bit - 1}})

\* Long division of n by d # 0, limb i of n downwards: quotient q, remainder r
RECURSIVE NDivFrom(_, _, _, _, _)
NDivFrom(n, d, i, q, r) ==
    IF i = 0
    THEN [q |-> NTrim(q), r |-> r]
    ELSE The({The({NDivFrom(n, d, j, q2, r3) :
                     j \in {i - 1}, q2 \in {<<k>> \o q}, r3 \in {NSub(r2, NScale(d, k))}}) :
                r2 \in {NTrim(<<n[i]>> \o r)},
                k \in {QuotientLimb(NTrim(<<n[i]>> \o r), d, LimbBits - 1, 0)}})

NDivMod(n, d) == The({NDivFrom(x, y, Len(x), <<>>, <<>>) : x \in {n}, y \in {d}})

\* floor(a / 2^k) and a mod 2^k
NShr(a, k) ==
    The({NTrim([i \in 1..(Len(x) - w) |->
                  (x[i + w] \div (2 ^ b)) + (Limb(x, i + w + 1) % (2 ^ b)) * 2 ^ (LimbBits - b)]) :
           x \in {a}, w \in {k \div LimbBits}, b \in {k % LimbBits}})

NLow(a, k) ==
    The({IF w >= Len(x) THEN x
         ELSE NTrim(SubSeq(x, 1, w) \o <<Limb(x, w + 1) % (2 ^ b)>>) :
           x \in {a}, w \in {k \div LimbBits}, b \in {k % LimbBits}})

\* The number of bits of a limb, and of the zero bits a limb # 0 ends with
IntBitLen(n) == Cardinality({j \in 0..(LimbBits - 1) : 2 ^ j <= n})
IntLowZeros(n) == Max({j \in 0..(LimbBits - 1) : n % (2 ^ j) = 0})

\* The number of bits of a, and of the zero bits a # 0 ends with
NBitLen(a) ==
    The({IF x = <<>> THEN 0 ELSE LimbBits * (Len(x) - 1) + IntBitLen(x[Len(x)]) :
           x \in {a}})

NLowZeros(a) ==
    The({The({LimbBits * (z - 1) + IntLowZeros(x[z]) :
                z \in {Min({i \in 1..Len(x) : x[i] # 0})}}) :
           x \in {a}})

\* ------------------------------------------------------------------------
\* Numbers
\* ------------------------------------------------------------------------

\* Significant bits of a binary64 value; the exponent of its smallest
\* positive value, 2^-1074; the exponent of the power of two, 2^1024, that
\* is above every finite value
Precision == 53
MinExp == -1074
MaxExp == 1024

Zero == [k |-> "fin", s |-> 0, m |-> <<>>, e |-> 0]
ZeroOf(s) == [k |-> "fin", s |-> s, m |-> <<>>, e |-> 0]
NaN == [k |-> "nan", s |-> 0, m |-> <<>>, e |-> 0]
Inf(s) == [k |-> "inf", s |-> s, m |-> <<>>, e |-> 0]

\* (-1)^s * m * 2^e in canonical form: m odd, or a zero of sign s
Canon(s, m, e) ==
    The({IF t = <<>> THEN ZeroOf(s)
         ELSE The({[k |-> "fin", s |-> s, m |-> NShr(t, z), e |-> e + z] :
                     z \in {NLowZeros(t)}}) :
           t \in {NTrim(m)}})

\* The number n * 2^e, n an integer
Dy(n, e) == IF n < 0 THEN Canon(1, NatLimbs(-n), e) ELSE Canon(0, NatLimbs(n), e)
Num(n) == Dy(n, 0)

IsZero(x) == x.k = "fin" /\ x.m = <<>>
IsFinite(x) == x.k = "fin"

\* Round to nearest, ties to even: the d low bits of x.m are cut
RoundOff(x, d) ==
    The({Canon(x.s,
               IF half > 0 \/ (half = 0 /\ kept # <<>> /\ kept[1] % 2 = 1)
               THEN NAdd(kept, <<1>>) ELSE kept,
               x.e + d) :
           kept \in {NShr(x.m, d)},
           half \in {NCmp(NLow(x.m, d), NShl(<<1>>, d - 1))}})

\* A value of 2^MaxExp or more is an infinity
Overflow(a) ==
    The({IF x.k = "fin" /\ x.m # <<>> /\ x.e + NBitLen(x.m) > MaxExp
         THEN Inf(x.s) ELSE x :
           x \in {a}})

\* Round to nearest, ties to even, at Precision bits, or at the bits above
\* 2^MinExp when these are fewer
Round(a) ==
    The({IF x.k # "fin" \/ x.m = <<>> THEN x
         ELSE The({IF d <= 0 THEN Overflow(x) ELSE Overflow(RoundOff(x, d)) :
                     d \in {Max({NBitLen(x.m) - Precision, MinExp - x.e})}}) :
           x \in {a}})

Neg(x) == IF x.k = "nan" THEN x ELSE [x EXCEPT !.s = 1 - x.s]

\* Exact sum of the finite non-zero x and y, whose magnitudes at the
\* exponent e are a and b
DAddAt(x, y, e, a, b) ==
    IF x.s = y.s THEN Canon(x.s, NAdd(a, b), e)
    ELSE IF a = b THEN Zero
    ELSE IF NCmp(a, b) > 0 THEN Canon(x.s, NSub(a, b), e)
    ELSE Canon(y.s, NSub(b, a), e)

\* Exact sum, product and order of finite values
DAdd(a, b) ==
    The({IF IsZero(x) /\ IsZero(y) THEN (IF x.s = y.s THEN x ELSE Zero)
         ELSE IF IsZero(x) THEN y
         ELSE IF IsZero(y) THEN x
         ELSE The({The({DAddAt(x, y, e, p, q) :
                          p \in {NShl(x.m, x.e - e)}, q \in {NShl(y.m, y.e - e)}}) :
                     e \in {IF x.e < y.e THEN x.e ELSE y.e}}) :
           x \in {a}, y \in {b}})

DSub(x, y) == DAdd(x, Neg(y))

DMul(x, y) == Canon((x.s + y.s) % 2, NMul(x.m, y.m), x.e + y.e)

\* -1, 0, 1 as x < y, x = y, x > y; neither is NaN
Sign(x) == IF IsZero(x) THEN 0 ELSE IF x.s = 1 THEN -1 ELSE 1

\* The exponent of the power of two just above the finite non-zero x
Top(x) == x.e + NBitLen(x.m)

Cmp(a, b) ==
    The({IF x.k = "inf" /\ y.k = "inf"
         THEN (IF x.s = y.s THEN 0 ELSE IF x.s = 1 THEN -1 ELSE 1)
         ELSE IF x.k = "inf" THEN (IF x.s = 1 THEN -1 ELSE 1)
         ELSE IF y.k = "inf" THEN (IF y.s = 1 THEN 1 ELSE -1)
         ELSE IF IsZero(x) \/ IsZero(y) \/ x.s # y.s
              THEN (IF Sign(x) > Sign(y) THEN 1 ELSE IF Sign(x) < Sign(y) THEN -1 ELSE 0)
         ELSE IF Top(x) # Top(y) THEN (IF (Top(x) > Top(y)) = (x.s = 0) THEN 1 ELSE -1)
         ELSE The({Sign(d) : d \in {DSub(x, y)}}) :
           x \in {a}, y \in {b}})

Lt(a, b) == The({x.k # "nan" /\ y.k # "nan" /\ Cmp(x, y) < 0 : x \in {a}, y \in {b}})
Le(a, b) == The({x.k # "nan" /\ y.k # "nan" /\ Cmp(x, y) <= 0 : x \in {a}, y \in {b}})

\* The finite non-zero y is less than a quarter of the last of the
\* Precision bits of the finite non-zero x: x + y rounds to x
Absorbs(x, y) ==
    /\ x.m # <<>> /\ y.m # <<>>
    /\ NBitLen(x.m) <= Precision
    /\ Top(y) + Precision + 2 <= Top(x)

\* x + y, x - y, x * y, x / y as the language computes them
FAdd(a, b) ==
    The({IF x.k = "nan" \/ y.k = "nan" THEN NaN
         ELSE IF x.k = "inf" THEN (IF y.k = "inf" /\ y.s # x.s THEN NaN ELSE x)
         ELSE IF y.k = "inf" THEN y
         ELSE IF Absorbs(x, y) THEN x
         ELSE IF Absorbs(y, x) THEN y
         ELSE Round(DAdd(x, y)) :
           x \in {a}, y \in {b}})

FSub(a, b) == FAdd(a, Neg(b))

FMul(a, b) ==
    The({IF x.k = "nan" \/ y.k = "nan" THEN NaN
         ELSE IF x.k = "inf" \/ y.k = "inf"
              THEN (IF IsZero(x) \/ IsZero(y) THEN NaN ELSE Inf((x.s + y.s) % 2))
         ELSE Round(DMul(x, y)) :
           x \in {a}, y \in {b}})

\* The quotient of two finite non-zero values.  The magnitudes are odd, so
\* the quotient is a binary fraction only when y.m divides x.m.  Otherwise
\* the division never ends: take at least Precision + 2 bits of the quotient
\* of the magnitudes, and one more, set, so that the rounding sees what was
\* cut.
FinDivAt(x, y, t) ==
    The({IF qr.r = <<>>
         THEN Round(Canon((x.s + y.s) % 2, qr.q, x.e - y.e - t))
         ELSE Round(Canon((x.s + y.s) % 2, NAdd(NScale(qr.q, 2), <<1>>),
                          x.e - y.e - t - 1)) :
           qr \in {NDivMod(NShl(x.m, t), y.m)}})

FinDiv(x, y) ==
    IF y.m = <<1>>
    THEN Round([x EXCEPT !.s = (x.s + y.s) % 2, !.e = x.e - y.e])
    ELSE The({FinDivAt(x, y, t) :
                t \in {IF Precision + 2 + NBitLen(y.m) > NBitLen(x.m)
                       THEN Precision + 2 + NBitLen(y.m) - NBitLen(x.m) ELSE 0}})

FDiv(a, b) ==
    The({IF x.k = "nan" \/ y.k = "nan" THEN NaN
         ELSE IF x.k = "inf" THEN (IF y.k = "inf" THEN NaN ELSE Inf((x.s + y.s) % 2))
         ELSE IF y.k = "inf" THEN ZeroOf((x.s + y.s) % 2)
         ELSE IF IsZero(y) THEN (IF IsZero(x) THEN NaN ELSE Inf((x.s + y.s) % 2))
         ELSE IF IsZero(x) THEN ZeroOf((x.s + y.s) % 2)
         ELSE FinDiv(x, y) :
           x \in {a}, y \in {b}})

\* Math.min of two numbers; the negative zero is the lesser zero
MathMin(a, b) ==
    The({IF x.k = "nan" \/ y.k = "nan" THEN NaN
         ELSE IF Lt(y, x) \/ (IsZero(x) /\ IsZero(y) /\ y.s = 1) THEN y ELSE x :
           x \in {a}, y \in {b}})


\* ------------------------------------------------------------------------
\* State
\* ------------------------------------------------------------------------

VARIABLES
    idLayerList,      \* sozi.document.idLayerList: the declared layer ids, in order
    initialChildren,  \* the children of the root element when the document loaded
    children,         \* the scene graph: container node -> its children, in order
    win,              \* <<window.innerWidth, window.innerHeight>>
    resizePending,    \* the viewport changed and its resize event is not yet handled
    initialBBox,      \* the bounding box recorded by the setup
    rootSize,         \* the width and height attributes of the root element
    layers,           \* exports.layers: layer id -> geometry and DOM handles
    clipRect,         \* layer id -> the x, y, width, height attributes of its clip rectangle
    transform,        \* layer id -> the arguments of the transform attribute of its group
    fired,            \* the events this module has fired
    lastOp,           \* the last operation: its name, its arguments, whether it returned
    roundTrip,        \* after rotate(a) then rotate(-a): the rotations before the first
    nops              \* operations so far (bounds the runs)

vars == <<idLayerList, initialChildren, children, win, resizePending, initialBBox,
          rootSize, layers, clipRect, transform, fired, lastOp, roundTrip, nops>>

\* Scene graph nodes
Root == <<"svg", "root">>
LayerGroup(id) == <<"layer", id>>
ClipPath(id) == <<"clipPath", id>>
ClipRectNode(id) == <<"rect", id>>
ClippedGroup(id) == <<"clipped", id>>
Other(name) == <<"other", name>>

\* An attribute that has not been set
Unset == [k |-> "unset", s |-> 0, m |-> <<>>, e |-> 0]

Ids(list) == {list[i] : i \in 1..Len(list)}
Registered == DOMAIN layers

\* ------------------------------------------------------------------------
\* Geometry
\* ------------------------------------------------------------------------

\* Math.max of two numbers
MathMax(a, b) ==
    The({IF x.k = "nan" \/ y.k = "nan" THEN NaN
         ELSE IF Lt(x, y) \/ (IsZero(x) /\ IsZero(y) /\ y.s = 0) THEN y ELSE x :
           x \in {a}, y \in {b}})

\* getFrameGeometry with the larger of the two ratios for scale: the frame
\* fills the viewport and is cropped (a fault the fit law must detect)
getFrameGeometryFill(L, W, idLayer) ==
    The({The({[scale |-> scale,
               width |-> width,
               height |-> height,
               x |-> FDiv(FSub(Num(W[1]), width), Num(2)),
               y |-> FDiv(FSub(Num(W[2]), height), Num(2))] :
                width \in {FMul(g.width, scale)},
                height \in {FMul(g.height, scale)}}) :
           g \in {L[idLayer].geometry},
           scale \in {MathMax(FDiv(Num(W[1]), L[idLayer].geometry.width),
                              FDiv(Num(W[2]), L[idLayer].geometry.height))}})

\* getFrameGeometry(idLayer), reading the registry L and the window size W
getFrameGeometry(L, W, idLayer) ==
    The({The({[scale |-> scale,
               width |-> width,
               height |-> height,
               x |-> FDiv(FSub(Num(W[1]), width), Num(2)),
               y |-> FDiv(FSub(Num(W[2]), height), Num(2))] :
                width \in {FMul(g.width, scale)},
                height \in {FMul(g.height, scale)}}) :
           g \in {L[idLayer].geometry},
           scale \in {MathMin(FDiv(Num(W[1]), L[idLayer].geometry.width),
                              FDiv(Num(W[2]), L[idLayer].geometry.height))}})

\* ClipRectOf without the test of the clip flag (a fault the freshness of
\* the clip rectangle must detect)
ClipRectAlwaysFrame(lg, fg, W) ==
    [x |-> fg.x, y |-> fg.y, width |-> fg.width, height |-> fg.height]

\* The attributes update writes to the clip rectangle of a layer of
\* geometry lg and frame geometry fg
ClipRectOf(lg, fg, W) ==
    [x |-> IF lg.clip THEN fg.x ELSE Num(0),
     y |-> IF lg.clip THEN fg.y ELSE Num(0),
     width |-> IF lg.clip THEN fg.width ELSE Num(W[1]),
     height |-> IF lg.clip THEN fg.height ELSE Num(W[2])]

\* The arguments of the transform update writes to the group of a layer:
\* scale(scale) translate(translateX, translateY) rotate(angle, cx, cy)
TransformOf(lg, fg) ==
    [scale |-> fg.scale,
     translateX |-> FAdd(FAdd(Neg(lg.cx), FDiv(lg.width, Num(2))),
                         FDiv(fg.x, fg.scale)),
     translateY |-> FAdd(FAdd(Neg(lg.cy), FDiv(lg.height, Num(2))),
                         FDiv(fg.y, fg.scale)),
     angle |-> -lg.rotate,
     cx |-> lg.cx,
     cy |-> lg.cy]

\* exports.update on the registry L: what it writes to the scene, layer by
\* layer
update(L, W) ==
    [id \in DOMAIN L |->
        The({[clipRect |-> ClipRectOf(lg, fg, W), transform |-> TransformOf(lg, fg)] :
               lg \in {L[id].geometry}, fg \in {getFrameGeometry(L, W, id)}})]

\* The remainder operator of the language on integers: the sign of the dividend
JsRem(a, n) == IF a >= 0 THEN a % n ELSE -((-a) % n)

\* Math.cos and Math.sin of rotate * Math.PI / 180 at the quarter turns:
\* the binary64 values, which are not the exact 0 where the real ones are.
\* 0x11a62633145c07 * 2^-106 = 6.123233995736766e-17
PiHalfCos == Canon(0, <<23559, 26152, 6296, 141>>, -106)
\* -0x1a79394c9e8a0a * 2^-105 = -1.8369701987210297e-16
ThreePiHalfCos == Canon(1, <<2570, 6461, 25829, 211>>, -105)
\* 0x11a62633145c07 * 2^-105 = 1.2246467991473532e-16
PiSin == Canon(0, <<23559, 26152, 6296, 141>>, -105)

MathCos(rotate) ==
    CASE rotate = 0 -> Num(1)
      [] rotate \in {90, -90} -> PiHalfCos
      [] rotate \in {180, -180} -> Num(-1)
      [] rotate \in {270, -270} -> ThreePiHalfCos

MathSin(rotate) ==
    CASE rotate = 0 -> Num(0)
      [] rotate = 90 -> Num(1)
      [] rotate = -90 -> Num(-1)
      [] rotate = 180 -> PiSin
      [] rotate = -180 -> Neg(PiSin)
      [] rotate = 270 -> Num(-1)
      [] rotate = -270 -> Num(1)

\* ------------------------------------------------------------------------
\* Setup
\* ------------------------------------------------------------------------

\* The attributes of a geometry
Attrs == {"cx", "cy", "width", "height", "rotate", "clip"}

\* A geometry of no extent (a fault the positivity of the sizes must detect)
ZeroGeometry ==
    [cx |-> Num(0), cy |-> Num(0), width |-> Num(0), height |-> Num(0),
     rotate |-> 0, clip |-> TRUE]

\* The geometry every layer is registered with
DefaultGeometry ==
    [cx |-> Num(0), cy |-> Num(0), width |-> Num(1), height |-> Num(1),
     rotate |-> 0, clip |-> TRUE]

IndexOf(seq, x) == CHOOSE i \in 1..Len(seq) : seq[i] = x
InsertAt(seq, i, x) == SubSeq(seq, 1, i - 1) \o <<x>> \o SubSeq(seq, i, Len(seq))
RemoveAt(seq, i) == SubSeq(seq, 1, i - 1) \o SubSeq(seq, i + 1, Len(seq))

\* WrapLayer with the clipped group appended to the root instead of
\* inserted before the layer group (a fault the paint order must detect)
WrapLayerAppend(ch, idLayer) ==
    LET withClipPath == Append(ch[Root], ClipPath(idLayer))
        at == IndexOf(withClipPath, LayerGroup(idLayer))
        moved == Append(RemoveAt(withClipPath, at), ClippedGroup(idLayer))
    IN  [n \in DOMAIN ch \cup {ClipPath(idLayer), ClippedGroup(idLayer)} |->
            IF n = Root THEN moved
            ELSE IF n = ClipPath(idLayer) THEN <<ClipRectNode(idLayer)>>
            ELSE IF n = ClippedGroup(idLayer) THEN <<LayerGroup(idLayer)>>
            ELSE ch[n]]

\* One turn of the loop of onDocumentReady on the scene graph ch: the clip
\* path, with its rectangle, is appended to the root; the clipped group is
\* inserted before the layer group in the root, and the layer group is
\* moved into it.
WrapLayer(ch, idLayer) ==
    LET withClipPath == Append(ch[Root], ClipPath(idLayer))
        at == IndexOf(withClipPath, LayerGroup(idLayer))
        inserted == InsertAt(withClipPath, at, ClippedGroup(idLayer))
        moved == RemoveAt(inserted, at + 1)
    IN  [n \in DOMAIN ch \cup {ClipPath(idLayer), ClippedGroup(idLayer)} |->
            IF n = Root THEN moved
            ELSE IF n = ClipPath(idLayer) THEN <<ClipRectNode(idLayer)>>
            ELSE IF n = ClippedGroup(idLayer) THEN <<LayerGroup(idLayer)>>
            ELSE ch[n]]

RECURSIVE WrapLayers(_, _, _)
WrapLayers(ch, list, i) ==
    IF i > Len(list) THEN ch ELSE WrapLayers(WrapLayer(ch, list[i]), list, i + 1)

\* The attributes of a layer group the setup has not yet given a transform
NoTransform ==
    [scale |-> Unset, translateX |-> Unset, translateY |-> Unset, angle |-> 0,
     cx |-> Unset, cy |-> Unset]

\* The bounding box the root element reports
DocumentBBox == [x |-> Num(0), y |-> Num(0), width |-> Num(800), height |-> Num(600)]

\* onDocumentReady, the listener of "documentready", which is fired once
DocumentReady ==
    /\ fired = <<>>
    /\ initialBBox' = DocumentBBox
    /\ rootSize' = win
    /\ layers' = [id \in Ids(idLayerList) |->
                    [geometry |-> DefaultGeometry,
                     svgClipRect |-> ClipRectNode(id),
                     svgLayer |-> LayerGroup(id)]]
    /\ children' = WrapLayers(children, idLayerList, 1)
    /\ clipRect' = [id \in Ids(idLayerList) |->
                      [x |-> Unset, y |-> Unset, width |-> Unset, height |-> Unset]]
    /\ transform' = [id \in Ids(idLayerList) |-> NoTransform]
    /\ fired' = Append(fired, "displayready")
    /\ lastOp' = [op |-> "documentready", args |-> <<>>, ok |-> TRUE]
    /\ roundTrip' = <<>>
    /\ UNCHANGED <<idLayerList, initialChildren, win, resizePending>>

\* ------------------------------------------------------------------------
\* Operations
\* ------------------------------------------------------------------------

\* What every operation that ends in exports.update does to the scene, L the
\* registry it leaves
Render(L) ==
    \E written \in {update(L, win)} :
        /\ clipRect' = [id \in DOMAIN written |-> written[id].clipRect]
        /\ transform' = [id \in DOMAIN written |-> written[id].transform]

\* The host changes the size of the viewport; the resize event follows
ViewportChange(W) ==
    /\ W # win
    /\ win' = W
    /\ resizePending' = TRUE
    /\ lastOp' = [op |-> "viewport", args |-> W, ok |-> TRUE]
    /\ roundTrip' = <<>>
    /\ UNCHANGED <<idLayerList, initialChildren, children, initialBBox, rootSize,
                   layers, clipRect, transform, fired>>

\* resize, the listener of the window's "resize"
Resize ==
    /\ resizePending
    /\ resizePending' = FALSE
    /\ rootSize' = win
    /\ Render(layers)
    /\ lastOp' = [op |-> "resize", args |-> <<>>, ok |-> TRUE]
    /\ roundTrip' = <<>>
    /\ UNCHANGED <<idLayerList, initialChildren, children, win, initialBBox, layers, fired>>

\* exports.update, called from outside
Update ==
    /\ Render(layers)
    /\ lastOp' = [op |-> "update", args |-> <<>>, ok |-> TRUE]
    /\ roundTrip' = <<>>
    /\ UNCHANGED <<idLayerList, initialChildren, children, win, resizePending,
                   initialBBox, rootSize, layers, fired>>

\* copyFrame with the geometry of a layer replaced by the frame's, the
\* attributes the frame does not give back at their defaults (a fault the
\* copy of the present attributes must detect)
RECURSIVE copyFrameWhole(_, _, _)
copyFrameWhole(L, frame, i) ==
    IF i > Len(frame) THEN [layers |-> L, ok |-> TRUE]
    ELSE IF frame[i].id \notin DOMAIN L THEN [layers |-> L, ok |-> FALSE]
    ELSE The({copyFrameWhole(copied, frame, j) :
                copied \in {[L EXCEPT ![frame[i].id].geometry =
                               [attr \in Attrs |->
                                  IF attr \in DOMAIN frame[i].geometry
                                  THEN frame[i].geometry[attr]
                                  ELSE DefaultGeometry[attr]]]},
                j \in {i + 1}})

\* The loop of showFrame over frame, a sequence of [id, geometry] in the
\* order the frame object enumerates its layers, from entry i on.  Each
\* attribute the frame's geometry has is copied; reading the geometry of a
\* layer the registry does not hold throws, and ends the loop where it is.
RECURSIVE copyFrame(_, _, _)
copyFrame(L, frame, i) ==
    IF i > Len(frame) THEN [layers |-> L, ok |-> TRUE]
    ELSE IF frame[i].id \notin DOMAIN L THEN [layers |-> L, ok |-> FALSE]
    ELSE The({copyFrame(copied, frame, j) :
                copied \in {[L EXCEPT ![frame[i].id].geometry =
                               [attr \in Attrs |->
                                  IF attr \in DOMAIN frame[i].geometry
                                  THEN frame[i].geometry[attr] ELSE @[attr]]]},
                j \in {i + 1}})

\* exports.showFrame(frame); name tells the frames apart in lastOp
ShowFrame(name, frame) ==
    \E done \in {copyFrame(layers, frame, 1)} :
        /\ layers' = done.layers
        /\ IF done.ok THEN Render(done.layers) ELSE UNCHANGED <<clipRect, transform>>
        /\ lastOp' = [op |-> "showFrame", args |-> name, ok |-> done.ok]
        /\ roundTrip' = <<>>
        /\ UNCHANGED <<idLayerList, initialChildren, children, win, resizePending,
                       initialBBox, rootSize, fired>>

\* dragLayers without the reset of the clip flag (a fault the unclipping
\* by drag must detect)
dragLayersKeepClip(L, W, deltaX, deltaY) ==
    [id \in DOMAIN L |->
        The({[L[id] EXCEPT
                !.geometry.cx =
                    FSub(@, FDiv(FSub(FMul(deltaX, cos), FMul(deltaY, sin)), scale)),
                !.geometry.cy =
                    FSub(@, FDiv(FAdd(FMul(deltaX, sin), FMul(deltaY, cos)), scale))] :
               scale \in {getFrameGeometry(L, W, id).scale},
               cos \in {MathCos(L[id].geometry.rotate)},
               sin \in {MathSin(L[id].geometry.rotate)}})]

\* The loop of exports.drag on the registry L
dragLayers(L, W, deltaX, deltaY) ==
    [id \in DOMAIN L |->
        The({[L[id] EXCEPT
                !.geometry.cx =
                    FSub(@, FDiv(FSub(FMul(deltaX, cos), FMul(deltaY, sin)), scale)),
                !.geometry.cy =
                    FSub(@, FDiv(FAdd(FMul(deltaX, sin), FMul(deltaY, cos)), scale)),
                !.geometry.clip = FALSE] :
               scale \in {getFrameGeometry(L, W, id).scale},
               cos \in {MathCos(L[id].geometry.rotate)},
               sin \in {MathSin(L[id].geometry.rotate)}})]

\* exports.drag(deltaX, deltaY), the displacement in whole pixels
Drag(dx, dy) ==
    \E dragged \in {dragLayers(layers, win, Num(dx), Num(dy))} :
        /\ layers' = dragged
        /\ Render(dragged)
        /\ lastOp' = [op |-> "drag", args |-> <<dx, dy>>, ok |-> TRUE]
        /\ roundTrip' = <<>>
        /\ UNCHANGED <<idLayerList, initialChildren, children, win, resizePending,
                       initialBBox, rootSize, fired>>

\* zoomLayers with the compensating drag scaled by factor instead of
\* 1 - factor (a fault the zoom by 1 must detect)
zoomLayersByFactor(L, W, factor, x, y) ==
    The({dragLayers(scaled, W, deltaX, deltaY) :
           deltaX \in {FMul(factor, FSub(x, FDiv(Num(W[1]), Num(2))))},
           deltaY \in {FMul(factor, FSub(y, FDiv(Num(W[2]), Num(2))))},
           scaled \in {[id \in DOMAIN L |->
                          [L[id] EXCEPT !.geometry.width = FDiv(@, factor),
                                        !.geometry.height = FDiv(@, factor)]]}})

\* The body of exports.zoom on the registry L: the sizes are divided, then
\* exports.drag moves the layers
zoomLayers(L, W, factor, x, y) ==
    The({dragLayers(scaled, W, deltaX, deltaY) :
           deltaX \in {FMul(FSub(Num(1), factor), FSub(x, FDiv(Num(W[1]), Num(2))))},
           deltaY \in {FMul(FSub(Num(1), factor), FSub(y, FDiv(Num(W[2]), Num(2))))},
           scaled \in {[id \in DOMAIN L |->
                          [L[id] EXCEPT !.geometry.width = FDiv(@, factor),
                                        !.geometry.height = FDiv(@, factor)]]}})

\* exports.zoom(factor, x, y), the factor f[1] * 2^f[2], the pivot in whole pixels
Zoom(f, x, y) ==
    \E zoomed \in {zoomLayers(layers, win, Dy(f[1], f[2]), Num(x), Num(y))} :
        /\ layers' = zoomed
        /\ Render(zoomed)
        /\ lastOp' = [op |-> "zoom", args |-> <<f, x, y>>, ok |-> TRUE]
        /\ roundTrip' = <<>>
        /\ UNCHANGED <<idLayerList, initialChildren, children, win, resizePending,
                       initialBBox, rootSize, fired>>

\* The loop of exports.rotate on the registry L
rotateLayers(L, angle) ==
    [id \in DOMAIN L |->
        [L[id] EXCEPT !.geometry.rotate = JsRem(L[id].geometry.rotate + angle, 360)]]

Rotations(L) == [id \in DOMAIN L |-> L[id].geometry.rotate]

\* exports.rotate(angle), the angle in whole degrees
Rotate(angle) ==
    \E rotated \in {rotateLayers(layers, angle)} :
        /\ layers' = rotated
        /\ Render(rotated)
        /\ lastOp' = [op |-> "rotate", args |-> <<angle, Rotations(layers)>>, ok |-> TRUE]
        /\ roundTrip' = IF lastOp.op = "rotate" /\ lastOp.args[1] = -angle
                        THEN <<lastOp.args[2]>> ELSE <<>>
        /\ UNCHANGED <<idLayerList, initialChildren, children, win, resizePending,
                       initialBBox, rootSize, fired>>

\* ------------------------------------------------------------------------
\* Inputs
\* ------------------------------------------------------------------------

\* The viewport sizes the host takes
Viewports == {<<800, 400>>, <<400, 300>>}

\* The document of the main specification: two layers after a defs element
MainChildren == <<Other("defs"), LayerGroup("l1"), LayerGroup("l2")>>
MainLayerList == <<"l1", "l2">>

\* The frames the presentation supplies.  A frame names some layers, and
\* gives each some attributes.
FrameNames == {"slide", "turn", "wide", "flat"}

Frame(name) ==
    CASE name = "slide" ->
           <<[id |-> "l1",
              geometry |-> [cx |-> Num(100), cy |-> Num(50), width |-> Num(200),
                            height |-> Num(100), rotate |-> 0, clip |-> TRUE]]>>
      [] name = "turn" ->
           <<[id |-> "l2", geometry |-> [rotate |-> 270, clip |-> TRUE]],
             [id |-> "l1", geometry |-> [cx |-> Num(25)]]>>
      [] name = "wide" ->
           <<[id |-> "l1", geometry |-> [width |-> Num(300), height |-> Num(100)]]>>
      [] name = "flat" ->
           <<[id |-> "l2", geometry |-> [width |-> Num(0)]]>>

Drags == {<<0, 0>>, <<40, -20>>}
\* The zoom factors f[1] * 2^f[2]: 1, 2, -1 and 2^600
ZoomFactors == {<<1, 0>>, <<2, 0>>, <<-1, 0>>, <<1, 600>>}
Pivots == {<<400, 200>>, <<0, 0>>}
QuarterTurns == {90, -90}

\* Operations in a run of the main specification
MaxOps == 3

\* ------------------------------------------------------------------------
\* Specifications
\* ------------------------------------------------------------------------

InitDocument(ch, list) ==
    /\ idLayerList = list
    /\ initialChildren = ch
    /\ children = [n \in {Root} |-> ch]
    /\ win \in Viewports
    /\ resizePending = FALSE
    /\ initialBBox = [x |-> Unset, y |-> Unset, width |-> Unset, height |-> Unset]
    /\ rootSize = <<>>
    /\ layers = [id \in {} |-> [geometry |-> DefaultGeometry]]
    /\ clipRect = [id \in {} |-> Unset]
    /\ transform = [id \in {} |-> NoTransform]
    /\ fired = <<>>
    /\ lastOp = [op |-> "load", args |-> <<>>, ok |-> TRUE]
    /\ roundTrip = <<>>
    /\ nops = 0

Init == InitDocument(MainChildren, MainLayerList)

Tick(max) == nops < max /\ nops' = nops + 1

\* The player: the setup, the host's events and the calls of the other
\* modules, in any order
Next ==
    \/ DocumentReady /\ UNCHANGED nops
    \/ Tick(MaxOps) /\ \E W \in Viewports : ViewportChange(W)
    \/ Tick(MaxOps) /\ Resize
    \/ Tick(MaxOps) /\ Update
    \/ Tick(MaxOps) /\ \E name \in FrameNames : ShowFrame(name, Frame(name))
    \/ Tick(MaxOps) /\ \E d \in Drags : Drag(d[1], d[2])
    \/ Tick(MaxOps) /\ \E f \in ZoomFactors, p \in Pivots : Zoom(f, p[1], p[2])
    \/ Tick(MaxOps) /\ \E a \in QuarterTurns : Rotate(a)

Spec == Init /\ [][Next]_vars

\* The fit to the viewport: frames of many sizes are shown on the first
\* layer, and the viewport changes
MaxFitSize == 4

FitWidths == {Num(k) : k \in 1..MaxFitSize} \cup {Num(200), Dy(3, 40)}
FitHeights == {Num(3), Num(11), Num(100), Dy(1, -40)}

FitFrame(w, h) == <<[id |-> "l1", geometry |-> [width |-> w, height |-> h]]>>

NextFit ==
    \/ DocumentReady /\ UNCHANGED nops
    \/ UNCHANGED nops /\ \E W \in Viewports : ViewportChange(W)
    \/ UNCHANGED nops /\ Resize
    \/ UNCHANGED nops /\ \E w \in FitWidths, h \in FitHeights : ShowFrame(<<w, h>>, FitFrame(w, h))

SpecFit == Init /\ [][NextFit]_vars

\* The setup of every document: up to MaxLayers layer groups and a defs
\* element as the children of the root, in any order, and any ordered list
\* of some of these layers as the declared layers
MaxLayers == 3

LayerPool == <<"l1", "l2", "l3", "l4", "l5">>
SetupLayerIds == {LayerPool[i] : i \in 1..MaxLayers}

Perms(S) ==
    {q \in [1..Cardinality(S) -> S] : \A i, j \in 1..Cardinality(S) : i # j => q[i] # q[j]}

Orderings(S) == UNION {Perms(T) : T \in SUBSET S}

InitSetup ==
    \E P \in SUBSET SetupLayerIds :
        \E ch \in Perms({Other("defs")} \cup {LayerGroup(id) : id \in P}),
           list \in Orderings(P) :
            InitDocument(ch, list)

NextSetup == DocumentReady /\ UNCHANGED nops

SpecSetup == InitSetup /\ [][NextSetup]_vars

\* ------------------------------------------------------------------------
\* Properties
\* ------------------------------------------------------------------------

Positive(x) == Lt(Zero, x)

\* Equal as numbers: the two zeros are
Same(a, b) == a = b \/ (IsZero(a) /\ IsZero(b))

\* Whether frame gives the attribute attr of the layer id, and its value
Supplies(frame, id, attr) ==
    \E i \in 1..Len(frame) : frame[i].id = id /\ attr \in DOMAIN frame[i].geometry

Supplied(frame, id, attr) ==
    frame[CHOOSE i \in 1..Len(frame) :
            frame[i].id = id /\ attr \in DOMAIN frame[i].geometry].geometry[attr]

\* The last operation ended in exports.update
Rendered ==
    \/ lastOp.op \in {"resize", "update", "drag", "zoom", "rotate"}
    \/ lastOp.op = "showFrame" /\ lastOp.ok

\* C1: after any sequence of rotate calls, the rotation of every registered
\* layer lies in [0, 360).  (The code keeps the sign of the sum: rotate(-90)
\* at rotation 0 leaves -90.)
RotationInRange ==
    \A id \in Registered : layers[id].geometry.rotate \in 0..359

\* C2: rotate(a) followed by rotate(-a), from rotations in [0, 360), leaves
\* every layer's rotation as it was before the two calls.  (From 270,
\* rotate(90) gives 0 and rotate(-90) then gives -90.)
RotateRoundTrip ==
    (/\ roundTrip # <<>>
     /\ \A id \in DOMAIN roundTrip[1] : roundTrip[1][id] \in 0..359)
    => Rotations(layers) = roundTrip[1]

\* A step that is zoom(1, x, y)
ZoomOneStep == lastOp'.op = "zoom" /\ lastOp'.args[1] = <<1, 0>>

\* C3 as stated: zoom(1, x, y) leaves cx, cy, width, height, rotate and clip
\* of every layer as they were.
ZoomOneNoOp ==
    [][ZoomOneStep =>
         \A id \in Registered : layers'[id].geometry = layers[id].geometry]_vars

\* C3, amended: zoom(1, x, y), on layers of finite width and height, leaves
\* cx, cy, width, height and rotate of every layer as they were, and leaves
\* clip false.
ZoomOneKeepsPlace ==
    [][(/\ ZoomOneStep
        /\ \A id \in Registered : /\ IsFinite(layers[id].geometry.width)
                                  /\ IsFinite(layers[id].geometry.height))
       => \A id \in Registered :
            /\ \A attr \in {"cx", "cy", "width", "height"} :
                 Same(layers'[id].geometry[attr], layers[id].geometry[attr])
            /\ layers'[id].geometry.rotate = layers[id].geometry.rotate
            /\ layers'[id].geometry.clip = FALSE]_vars

\* zoom(1, 0, 0) has returned on a layer that showed the frame "slide"
ZoomOneDone ==
    /\ lastOp.op = "zoom"
    /\ lastOp.args = <<<<1, 0>>, 0, 0>>
    /\ "l1" \in Registered
    /\ layers["l1"].geometry.cx = Num(100)
    /\ layers["l1"].geometry.width = Num(200)
    /\ ~layers["l1"].geometry.clip

\* C4: after showFrame(f), every attribute f gives for a layer has been
\* copied into that layer's geometry, and every other attribute of every
\* layer is as it was before the call.
ShowFrameCopies ==
    [][(lastOp'.op = "showFrame" /\ lastOp'.ok)
       => /\ DOMAIN layers' = DOMAIN layers
          /\ \A id \in Registered, attr \in Attrs :
               layers'[id].geometry[attr] =
                 IF Supplies(Frame(lastOp'.args), id, attr)
                 THEN Supplied(Frame(lastOp'.args), id, attr)
                 ELSE layers[id].geometry[attr]]_vars

\* showFrame("turn") has returned after showFrame("slide"): l1 has the cx of
\* the one and the size of the other, l2 the rotation of "turn"
ShowFramePartial ==
    /\ lastOp = [op |-> "showFrame", args |-> "turn", ok |-> TRUE]
    /\ layers["l1"].geometry.cx = Num(25)
    /\ layers["l1"].geometry.width = Num(200)
    /\ layers["l2"].geometry.rotate = 270
    /\ layers["l2"].geometry.width = Num(1)

\* C5: when drag returns, clip is false on every registered layer; a clip
\* that is false stays false through rotate, zoom, drag, resize (and update,
\* and a change of the viewport), and through a showFrame that gives the
\* layer no clip.
DragUnclips ==
    [][/\ lastOp'.op = "drag" => \A id \in DOMAIN layers' : ~layers'[id].geometry.clip
       /\ \A id \in DOMAIN layers \cap DOMAIN layers' :
            (/\ ~layers[id].geometry.clip
             /\ \/ lastOp'.op \in {"rotate", "zoom", "drag", "resize", "update", "viewport"}
                \/ /\ lastOp'.op = "showFrame"
                   /\ ~Supplies(Frame(lastOp'.args), id, "clip"))
            => ~layers'[id].geometry.clip]_vars

\* A resize has been handled after a drag: the layers are still unclipped
UnclippedAfterResize ==
    /\ lastOp.op = "resize"
    /\ Registered = {"l1", "l2"}
    /\ \A id \in Registered : ~layers[id].geometry.clip
    /\ rootSize = win
    /\ clipRect["l1"].width = Num(win[1])

\* 1 + 2^-52 and 1 - 2^-52: the room the rounding of a quotient and of a
\* product takes
OnePlus == DAdd(Num(1), Dy(1, -52))
OneMinus == DSub(Num(1), Dy(1, -52))

\* |a - b| <= c * 2^-52, for exact a, b and c >= 0
Near(a, b, c) ==
    /\ Cmp(DSub(a, b), DMul(c, Dy(1, -52))) <= 0
    /\ Cmp(DSub(b, a), DMul(c, Dy(1, -52))) <= 0

\* The layers the fit law is about: width and height positive, and what was
\* written to the scene is the frame geometry
Fitted(id) ==
    /\ layers[id].geometry.clip
    /\ Positive(layers[id].geometry.width) /\ IsFinite(layers[id].geometry.width)
    /\ Positive(layers[id].geometry.height) /\ IsFinite(layers[id].geometry.height)

\* C6 as stated: scale * width <= W and scale * height <= H, one of them
\* with equality, and x = (W - scale * width) / 2, y = (H - scale * height) / 2,
\* the products and the quotients as the program computes them; the size
\* (200, 100) in the viewport (800, 400) gives the scale 2 and the
\* rectangle 400 x 200 at (200, 100).
FitLawExact ==
    Rendered =>
      \A id \in {i \in Registered : Fitted(i)} :
        /\ Le(FMul(transform[id].scale, layers[id].geometry.width), Num(win[1]))
        /\ Le(FMul(transform[id].scale, layers[id].geometry.height), Num(win[2]))
        /\ \/ FMul(transform[id].scale, layers[id].geometry.width) = Num(win[1])
           \/ FMul(transform[id].scale, layers[id].geometry.height) = Num(win[2])
        /\ clipRect[id].x =
             FDiv(FSub(Num(win[1]),
                       FMul(transform[id].scale, layers[id].geometry.width)), Num(2))
        /\ clipRect[id].y =
             FDiv(FSub(Num(win[2]),
                       FMul(transform[id].scale, layers[id].geometry.height)), Num(2))
        /\ (/\ layers[id].geometry.width = Num(200)
            /\ layers[id].geometry.height = Num(100)
            /\ win = <<800, 400>>)
           => /\ transform[id].scale = Num(2)
              /\ clipRect[id] = [x |-> Num(200), y |-> Num(100),
                                 width |-> Num(400), height |-> Num(200)]

\* The fit law within the rounding, for the scale s, the size w, h of the
\* layer, the frame rectangle r and the viewport W, H: the exact products
\* s * w and s * h, and the rounded ones r.width and r.height, are at most
\* W (1 + 2^-52) and H (1 + 2^-52); one of s * w, s * h and one of r.width,
\* r.height is at least W (1 - 2^-52), H (1 - 2^-52); and 2x + width and
\* 2y + height are W and H within 2^-52 W and 2^-52 H
FitWithin(s, w, h, r, W, H) ==
    /\ Cmp(DMul(s, w), DMul(W, OnePlus)) <= 0
    /\ Cmp(DMul(s, h), DMul(H, OnePlus)) <= 0
    /\ Cmp(r.width, DMul(W, OnePlus)) <= 0
    /\ Cmp(r.height, DMul(H, OnePlus)) <= 0
    /\ \/ Cmp(DMul(s, w), DMul(W, OneMinus)) >= 0
       \/ Cmp(DMul(s, h), DMul(H, OneMinus)) >= 0
    /\ \/ Cmp(r.width, DMul(W, OneMinus)) >= 0
       \/ Cmp(r.height, DMul(H, OneMinus)) >= 0
    /\ Near(DAdd(DMul(Num(2), r.x), r.width), W, W)
    /\ Near(DAdd(DMul(Num(2), r.y), r.height), H, H)

\* C6, amended: for width and height between 2^-900 and 2^900 and a viewport
\* of whole pixels, the fit law and the centring hold within a relative
\* 2^-52 (FitWithin), not exactly; and the size (200, 100) in the viewport
\* (800, 400) gives exactly the scale 4 and the rectangle 800 x 400 at
\* (0, 0).
FitLawRounded ==
    Rendered =>
      \A id \in {i \in Registered : Fitted(i)} :
        /\ FitWithin(transform[id].scale, layers[id].geometry.width,
                     layers[id].geometry.height, clipRect[id],
                     Num(win[1]), Num(win[2]))
        /\ (/\ layers[id].geometry.width = Num(200)
            /\ layers[id].geometry.height = Num(100)
            /\ win = <<800, 400>>)
           => /\ transform[id].scale = Num(4)
              /\ clipRect[id] = [x |-> Num(0), y |-> Num(0),
                                 width |-> Num(800), height |-> Num(400)]

\* A frame of size 1 x 11 is shown in the viewport (800, 400): the scale,
\* 400 / 11, is not exact
FitInexact ==
    /\ lastOp.op = "showFrame"
    /\ lastOp.ok
    /\ win = <<800, 400>>
    /\ ~resizePending
    /\ layers["l1"].geometry.width = Num(1)
    /\ layers["l1"].geometry.height = Num(11)
    /\ NBitLen(transform["l1"].scale.m) = Precision

\* C7 as stated: in every state reached from the setup by showFrame, drag,
\* zoom, rotate and resize, the width and height of every registered layer
\* are greater than 0.
SizesPositive ==
    \A id \in Registered : /\ Positive(layers[id].geometry.width)
                           /\ Positive(layers[id].geometry.height)

\* w / f, for w > 0 and f > 0, rounds to zero: it is at most 2^(MinExp - 1)
Underflows(w, f) == Cmp(w, DMul(f, Dy(1, MinExp - 1))) <= 0

\* The step is an operation on valid numbers: a showFrame that gives only
\* positive widths and heights, a zoom by a positive factor that takes no
\* width or height down to zero, or any other operation
ValidStep ==
    CASE lastOp'.op = "showFrame" ->
           \A id \in Registered, attr \in {"width", "height"} :
             Supplies(Frame(lastOp'.args), id, attr)
               => Positive(Supplied(Frame(lastOp'.args), id, attr))
      [] lastOp'.op = "zoom" ->
           /\ Positive(Dy(lastOp'.args[1][1], lastOp'.args[1][2]))
           /\ \A id \in Registered :
                /\ ~Underflows(layers[id].geometry.width,
                               Dy(lastOp'.args[1][1], lastOp'.args[1][2]))
                /\ ~Underflows(layers[id].geometry.height,
                               Dy(lastOp'.args[1][1], lastOp'.args[1][2]))
      [] OTHER -> TRUE

\* C7, amended: the setup leaves every width and height greater than 0, and
\* they stay greater than 0 through resize, update, drag and rotate, through
\* a showFrame whose widths and heights are greater than 0, and through a
\* zoom whose factor is a finite number greater than 0, as long as the
\* quotients are above 2^-1075 (at or below it they round to 0).
SizesStayPositive ==
    [][/\ lastOp'.op = "documentready" => SizesPositive'
       /\ (SizesPositive /\ ValidStep) => SizesPositive']_vars

\* zoom(2, 0, 0) has returned on a layer that showed the frame "slide"
ZoomedPositive ==
    /\ lastOp.op = "zoom"
    /\ lastOp.args[1] = <<2, 0>>
    /\ "l1" \in Registered
    /\ layers["l1"].geometry.width = Num(100)
    /\ layers["l1"].geometry.height = Num(50)

\* The places of a node in the scene graph: <<parent, index>>
Places(node) ==
    {p \in UNION {{<<n, i>> : i \in 1..Len(children[n])} : n \in DOMAIN children} :
       children[p[1]][p[2]] = node}

\* C8: after the setup, the wrapping group of each declared layer is the
\* child of the root at the position its layer group had, every other
\* child the document had is at its position, the declared layers keep
\* their relative order, and each has exactly one clip rectangle (in its
\* clip path, a child of the root) and exactly one wrapping group, which
\* holds its layer group and nothing else.
SetupKeepsOrder ==
    fired # <<>> =>
      /\ Registered = Ids(idLayerList)
      /\ \A i \in 1..Len(initialChildren) :
           children[Root][i] =
             IF \E id \in Ids(idLayerList) : initialChildren[i] = LayerGroup(id)
             THEN ClippedGroup(initialChildren[i][2])
             ELSE initialChildren[i]
      /\ \A a, b \in Ids(idLayerList) :
           IndexOf(initialChildren, LayerGroup(a)) < IndexOf(initialChildren, LayerGroup(b))
             <=> IndexOf(children[Root], ClippedGroup(a)) < IndexOf(children[Root], ClippedGroup(b))
      /\ \A id \in Ids(idLayerList) :
           /\ layers[id].svgClipRect = ClipRectNode(id)
           /\ layers[id].svgLayer = LayerGroup(id)
           /\ Places(ClipRectNode(id)) = {<<ClipPath(id), 1>>}
           /\ Cardinality(Places(ClipPath(id))) = 1
           /\ \E i \in 1..Len(children[Root]) : Places(ClipPath(id)) = {<<Root, i>>}
           /\ Cardinality(Places(ClippedGroup(id))) = 1
           /\ Places(LayerGroup(id)) = {<<ClippedGroup(id), 1>>}
           /\ children[ClippedGroup(id)] = <<LayerGroup(id)>>

\* The setup has run on a document whose layers l1, l3, l2 stand around the
\* defs element, l2 and l1 declared, in this order
SetupDone ==
    /\ fired = <<"displayready">>
    /\ initialChildren = <<LayerGroup("l1"), Other("defs"), LayerGroup("l3"), LayerGroup("l2")>>
    /\ idLayerList = <<"l2", "l1">>
    /\ children[Root][1] = ClippedGroup("l1")
    /\ children[Root][4] = ClippedGroup("l2")

\* C9: whenever a resize is handled, the setup has completed and the
\* registry holds every declared layer.  (The resize listener is registered
\* when the module loads: a resize that comes before "documentready" runs
\* update on the empty registry.)
ResizeAfterSetup ==
    lastOp.op = "resize" => (fired # <<>> /\ Registered = Ids(idLayerList))

\* C10: after resize, showFrame, drag, zoom or rotate (or update), the clip
\* rectangle written for every registered layer is the frame rectangle of
\* the layer's geometry in the viewport when clip is true, and the whole
\* viewport when it is false.
ClipRectFresh ==
    Rendered =>
      \A id \in Registered :
        clipRect[id] =
          IF layers[id].geometry.clip
          THEN [attr \in {"x", "y", "width", "height"} |->
                  getFrameGeometry(layers, win, id)[attr]]
          ELSE [x |-> Num(0), y |-> Num(0),
                width |-> Num(win[1]), height |-> Num(win[2])]

\* A resize to (400, 300) has been handled with the frame "slide" shown:
\* the clip rectangle is 400 x 200 at (0, 50)
ClipRectAfterResize ==
    /\ lastOp.op = "resize"
    /\ win = <<400, 300>>
    /\ "l1" \in Registered
    /\ layers["l1"].geometry.clip
    /\ layers["l1"].geometry.width = Num(200)
    /\ clipRect["l1"] = [x |-> Num(0), y |-> Num(50), width |-> Num(400), height |-> Num(200)]
====
